---- MODULE Spec2Model ----
(***************************************************************************)
(* Model of Lab2/MicroPython/Completo.py: the DC-motor characterisation    *)
(* controller (encoder pulse counter, serial command interpreter, sampling *)
(* tick, step-profile tick, CSV record).                                   *)
(*                                                                         *)
(* Text is modelled as sequences of one-character strings, so that         *)
(* strip/upper/startswith/split/int are computed as the interpreter        *)
(* computes them.  The millisecond clock is the variable now; it advances  *)
(* only where the program reads it (ticks_ms), by an amount drawn from a   *)
(* small set.  The clock starts at 0 and stays far below the wrap-around   *)
(* period of ticks_ms, so ticks_diff is plain subtraction.                 *)
(***************************************************************************)
EXTENDS Integers, Sequences, FiniteSets, TLC

(* ------------------------------ bounds -------------------------------- *)
\* number of passes of the main loop
MaxPasses == 4
\* number of command lines the operator sends
MaxCmds == 2
\* number of storage failures (open, header write, row write)
MaxFaults == 1
\* number of encoder edges delivered (SpecPulse)
MaxEdges == 3

(* ------------------------- program constants -------------------------- *)
pulses_per_revolution == 20
sample_interval == 4
step_interval == 2000
print_interval == 500
SettleWindow == 100
DefaultStep == 20
DefaultPwm == 0
FullScale == 65535

IDLE == 0
MANUAL_PWM == 1
CAPTURING == 2

(* ------------------------------ text ---------------------------------- *)
LowerChars == <<"a","b","c","d","e","f","g","h","i","j","k","l","m",
                "n","o","p","q","r","s","t","u","v","w","x","y","z">>
UpperChars == <<"A","B","C","D","E","F","G","H","I","J","K","L","M",
                "N","O","P","Q","R","S","T","U","V","W","X","Y","Z">>
DigitChars == <<"0","1","2","3","4","5","6","7","8","9">>

IsSpace(c) == c \in {" ", "\t", "\r", "\n"}
IsDigit(c) == \E i \in 1..10 : DigitChars[i] = c
DigitVal(c) == (CHOOSE i \in 1..10 : DigitChars[i] = c) - 1

\* str.upper() on one character
UpperChar(c) ==
    IF \E i \in 1..26 : LowerChars[i] = c
    THEN UpperChars[CHOOSE i \in 1..26 : LowerChars[i] = c]
    ELSE c

\* str.upper()
Upper(s) == [i \in 1..Len(s) |-> UpperChar(s[i])]

\* str.strip(): drop leading and trailing whitespace
RECURSIVE LStrip(_)
LStrip(s) == IF s # <<>> /\ IsSpace(Head(s)) THEN LStrip(Tail(s)) ELSE s
RECURSIVE RStrip(_)
RStrip(s) ==
    IF s # <<>> /\ IsSpace(s[Len(s)]) THEN RStrip(SubSeq(s, 1, Len(s) - 1)) ELSE s
Strip(s) == RStrip(LStrip(s))

\* str.startswith(p)
StartsWith(s, p) == Len(s) >= Len(p) /\ SubSeq(s, 1, Len(p)) = p

\* str.split(): the maximal runs of non-whitespace characters
RECURSIVE SplitFrom(_, _, _)
SplitFrom(s, cur, acc) ==
    IF s = <<>>
    THEN IF cur = <<>> THEN acc ELSE Append(acc, cur)
    ELSE IF IsSpace(Head(s))
         THEN SplitFrom(Tail(s), <<>>, IF cur = <<>> THEN acc ELSE Append(acc, cur))
         ELSE SplitFrom(Tail(s), Append(cur, Head(s)), acc)
Split(s) == SplitFrom(s, <<>>, <<>>)

\* value of a run of decimal digits
RECURSIVE DigitsValue(_)
DigitsValue(ds) ==
    IF ds = <<>> THEN 0
    ELSE 10 * DigitsValue(SubSeq(ds, 1, Len(ds) - 1)) + DigitVal(ds[Len(ds)])

AllDigits(ds) == ds # <<>> /\ \A i \in 1..Len(ds) : IsDigit(ds[i])

\* int(tok): an optional sign and at least one decimal digit; anything else
\* raises ValueError (ok = FALSE)
IntParse(tok) ==
    IF tok # <<>> /\ Head(tok) \in {"+", "-"}
    THEN IF AllDigits(Tail(tok))
         THEN [ok |-> TRUE,
               val |-> IF Head(tok) = "-" THEN 0 - DigitsValue(Tail(tok))
                                          ELSE DigitsValue(Tail(tok))]
         ELSE [ok |-> FALSE, val |-> 0]
    ELSE IF AllDigits(tok)
         THEN [ok |-> TRUE, val |-> DigitsValue(tok)]
         ELSE [ok |-> FALSE, val |-> 0]

\* int(cmd.split()[1]) inside try/except: the default when the second token
\* is missing (IndexError) or is no integer (ValueError)
ArgOrDefault(cmd, default) ==
    LET toks == Split(cmd) IN
    IF Len(toks) >= 2 /\ IntParse(toks[2]).ok THEN IntParse(toks[2]).val ELSE default

Min(a, b) == IF a <= b THEN a ELSE b
Max(a, b) == IF a >= b THEN a ELSE b

START == <<"S","T","A","R","T">>
PWM == <<"P","W","M">>

\* cmd.startswith("START") / cmd.startswith("PWM") after strip().upper()
IsStart(line) == StartsWith(Upper(Strip(line)), START)
IsPwm(line) == ~IsStart(line) /\ StartsWith(Upper(Strip(line)), PWM)

ParseStep_NoClamp(line) == ArgOrDefault(Upper(Strip(line)), DefaultStep)
\* pwm_step = min(max(int(arg) or 20, 1), 100)
ParseStep(line) == Min(Max(ArgOrDefault(Upper(Strip(line)), DefaultStep), 1), 100)
ParsePwm_NoClamp(line) == ArgOrDefault(Upper(Strip(line)), DefaultPwm)
\* pwm_val = min(max(int(arg) or 0, 0), 100)
ParsePwm(line) == Min(Max(ArgOrDefault(Upper(Strip(line)), DefaultPwm), 0), 100)

DutyU16_Unscaled(pct) == pct * FullScale
\* int(current_pwm * 65535 / 100): the 16-bit duty handed to enA.duty_u16
DutyU16(pct) == (pct * FullScale) \div 100

\* ticks_diff(a, b)
ticks_diff(a, b) == a - b

\* line 161: rpm = (count * 60000) / (pulses_per_revolution * sample_interval),
\* a float kept here in thousandths
Rpm(n) == (n * 60000 * 1000) \div (pulses_per_revolution * sample_interval)
\* int(rpm): truncation toward zero of a value that is never negative
IntRpm(r) == r \div 1000

(* --------------------------- record lines ------------------------------ *)
HeaderLine == [kind |-> "header", delta |-> 0, pwm |-> 0, rpm |-> 0]
RowLine_Swapped(d, p, r) == [kind |-> "row", delta |-> p, pwm |-> d, rpm |-> r]
RowLine(d, p, r) == [kind |-> "row", delta |-> d, pwm |-> p, rpm |-> r]

(* ----------------------------- inputs ---------------------------------- *)
\* str(n) for n >= 0, used to build command lines
RECURSIVE Digits(_)
Digits(n) == IF n < 10 THEN <<DigitChars[n + 1]>>
             ELSE Append(Digits(n \div 10), DigitChars[(n % 10) + 1])

\* the lines the operator types in SpecParse
Lines ==
    { <<"s","t","a","r","t"," ","1","5">>,
      <<"S","T","A","R","T"," ","1","0","0">>,
      <<" ","s","t","a","r","t","\r">>,
      <<"s","t","a","r","t">>,
      <<"S","t","a","r","t"," ","x","9">>,
      <<"s","t","a","r","t"," ","1",".","5">>,
      <<"P","w","m"," ","h","i">>,
      <<"s","t","a","r","t"," ","0">>,
      <<"s","t","a","r","t","e","r"," ","5","0">>,
      <<"P","W","M"," ","5","0","0">>,
      <<"p","w","m"," ","-","5">>,
      <<"p","w","m"," ","4","0">>,
      <<"p","w","m">>,
      <<"p","w","m","x"," ","7">>,
      <<"f","o","o">>,
      <<"s","t","o","p"," ","2","0">>,
      <<>> }

\* str(n)
Format(n) == IF n < 0 THEN <<"-">> \o Digits(0 - n) ELSE Digits(n)

\* the line "<verb> <n>"
CmdLine(verb, n) == verb \o <<" ">> \o Format(n)

\* the lines the operator types in Spec: a one-step-up, one-step-down profile,
\* the default profile, and a manual duty above the range
CtlPwmArgs == {140}
CtlLines ==
    { CmdLine(<<"S","T","A","R","T">>, 100), <<" ","s","t","a","r","t","\r">> }
    \cup { CmdLine(<<"p","w","m">>, n) : n \in CtlPwmArgs }

\* spellings of the two verbs, and the arguments tried with each
StartVerbs == { <<"s","t","a","r","t">>, <<"S","T","A","R","T">>, <<"S","t","a","r","T">> }
PwmVerbs == { <<"p","w","m">>, <<"P","W","M">>, <<"P","w","m">> }
ArgValues == {-5, 0, 1, 15, 20, 99, 100, 101, 500}

\* the lines of SpecParse
ParseLines ==
    Lines \cup { CmdLine(v, n) : v \in StartVerbs \cup PwmVerbs, n \in ArgValues }

\* the lines of SpecProfile: a START for every step size
ProfileLines == { CmdLine(<<"S","T","A","R","T">>, n) : n \in 1..100 }

\* the lines of SpecPulse
PulseLines == { CmdLine(<<"S","T","A","R","T">>, 100) }

\* amounts by which the clock is found advanced at the top of a loop pass
Jumps == {0, 99, 2000}
\* the loop period of SpecProfile: every pass finds the clock advanced by it
ProfilePeriod == {90}
\* the clock's advance over a pass that runs late (FairPaced)
LatePeriod == {2000}
\* the clock's advance per pass in SpecParse and in SpecPulse
ParseJumps == {2000}
PulseJumps == {0, 4, 99}
\* the runs of SpecTwin: command lines with the clock's advance inside them and
\* the outcome of the open, and loop passes with the clock's advance before
\* them and the outcome of the row write
Cmd(line, d, outcome) == [kind |-> "cmd", line |-> line, d |-> d, outcome |-> outcome]
Pass(d, outcome) == [kind |-> "pass", line |-> <<>>, d |-> d, outcome |-> outcome]
TwinScripts ==
    { \* a whole one-step profile, one row withheld after the step up
      << Cmd(CmdLine(<<"S","T","A","R","T">>, 100), 0, "ok"),
         Pass(4, "ok"), Pass(2000, "ok"), Pass(90, "ok"), Pass(99, "ok"),
         Pass(2000, "ok") >>,
      \* manual duty, a report, a capture and its interruption
      << Cmd(CmdLine(<<"p","w","m">>, 140), 0, "ok"),
         Pass(500, "ok"),
         Cmd(<<" ","s","t","a","r","t","\r">>, 1, "ok"),
         Pass(4, "ok"),
         Cmd(CmdLine(<<"p","w","m">>, 40), 0, "ok"),
         Pass(2000, "ok") >>,
      \* a write failure, then a START whose open fails and one whose header
      \* write fails
      << Cmd(CmdLine(<<"S","T","A","R","T">>, 100), 0, "ok"),
         Pass(4, "ok"), Pass(2000, "write_fails"),
         Cmd(CmdLine(<<"S","T","A","R","T">>, 100), 0, "open_fails"),
         Pass(4, "ok"),
         Cmd(CmdLine(<<"S","T","A","R","T">>, 100), 0, "header_fails"),
         Pass(2000, "ok") >> }

\* amounts by which the clock is found advanced inside process_command
CmdJumps == {0, 1}
\* the outcomes of open() and of the header write
OpenOutcomes == {"ok", "open_fails", "header_fails"}

(* ------------------------------ state ---------------------------------- *)
VARIABLES
    pulse_count, current_state, current_pwm, csv_file, pwm_step, descending,
    start_time, last_step_time, just_changed_pwm, pwm_change_time,
    last_sample_time, last_print_time, current_time, count, rpm,
    pc,            \* position of the main loop
    now,           \* the millisecond clock (ticks_ms)
    enA,           \* the 16-bit duty last handed to enA.duty_u16
    disk,          \* the lines of curvita.csv
    console,       \* the last line printed to the operator
    edges_delivered, consumed_total,   \* history: edges raised, counts consumed
    cmds_done, last_cmd,               \* history: lines processed, the last one
    duty_log,      \* history: duties handed to the actuator since the last command
    uninterrupted, \* history: a capture was started and nothing has disturbed it
    passes, faults, \* history: loop passes begun, storage failures suffered
    before,        \* history: what the last command of this poll found
    step_change,   \* history: the last duty change made by a step tick
    sample_elapsed, \* history: the time since the previous sampling tick that
                   \* the sampling tick of this pass found at line 157
    twin           \* history of the run before this one (SpecTwin)

prog == <<pulse_count, current_state, current_pwm, csv_file, pwm_step, descending,
          start_time, last_step_time, just_changed_pwm, pwm_change_time,
          last_sample_time, last_print_time, current_time, count, rpm, pc>>
env == <<now, enA, disk, console>>
hist == <<edges_delivered, consumed_total, cmds_done, last_cmd, duty_log, uninterrupted,
          passes, faults, before, step_change, sample_elapsed>>
vars == <<prog, env, hist, twin>>

\* no earlier run
NoTwin == [phase |-> 0, script |-> <<>>, ip |-> 0, steps |-> 0, log |-> <<>>,
           rows |-> <<>>]

NoBefore == [state |-> IDLE, lines |-> 0, duty |-> 0, console |-> "", now |-> 0]

Init ==
    /\ pulse_count = 0
    /\ current_state = IDLE
    /\ current_pwm = 0
    /\ csv_file = "None"
    /\ pwm_step = 0          \* unbound until the first START; never read before
    /\ descending = FALSE
    /\ start_time = 0        \* unbound until the first START; never read before
    /\ last_step_time = 0
    /\ just_changed_pwm = FALSE
    /\ pwm_change_time = 0
    /\ last_sample_time = 0
    /\ last_print_time = 0
    /\ current_time = 0
    /\ count = 0
    /\ rpm = 0              \* unbound until the first sampling tick; never read before
    /\ pc = "poll"
    /\ now = 0
    /\ enA = 0
    /\ disk = <<>>
    /\ console = <<"", 0, 0>>
    /\ edges_delivered = 0
    /\ consumed_total = 0
    /\ cmds_done = 0
    /\ last_cmd = <<>>
    /\ duty_log = <<0>>
    /\ uninterrupted = FALSE
    /\ passes = 0
    /\ faults = 0
    /\ before = NoBefore
    /\ step_change = [any |-> FALSE, at |-> 0, final |-> FALSE]
    /\ sample_elapsed = 0
    /\ twin = NoTwin

(* --------------------------- encoder edge ------------------------------ *)
\* count_pulse: the rising-edge interrupt handler; it may run between any two
\* statements of the main loop
count_pulse ==
    /\ edges_delivered < MaxEdges
    /\ pulse_count' = pulse_count + 1
    /\ edges_delivered' = edges_delivered + 1
    /\ UNCHANGED <<current_state, current_pwm, csv_file, pwm_step, descending,
                   start_time, last_step_time, just_changed_pwm, pwm_change_time,
                   last_sample_time, last_print_time, current_time, count, rpm, pc>>
    /\ UNCHANGED <<env, consumed_total, cmds_done, last_cmd, duty_log, uninterrupted,
                   passes, faults, before, step_change, sample_elapsed>>

(* ----------------------------- commands -------------------------------- *)
NewRecord_Append == Append(disk, HeaderLine)
\* lines 107-108: open(..., "w") empties the record, then the header is written
NewRecord == <<HeaderLine>>

\* the START branch of process_command; d is the clock's advance between the
\* two ticks_ms() calls, outcome what open() and the header write do
StartBranch(line, d, outcome) ==
    /\ pwm_step' = ParseStep(line)
    /\ current_pwm' = 0
    /\ descending' = FALSE
    /\ enA' = 0
    /\ start_time' = now
    /\ last_step_time' = now + d
    /\ now' = now + d
    /\ duty_log' = <<0>>
    /\ uninterrupted' = (outcome = "ok")
    /\ faults' = IF outcome = "ok" THEN faults ELSE faults + 1
    /\ IF outcome = "open_fails"
       THEN /\ console' = <<"Error al abrir archivo", 0, 0>>
            /\ UNCHANGED <<csv_file, disk, current_state>>
       ELSE IF outcome = "header_fails"
       THEN /\ csv_file' = "open"
            /\ disk' = <<>>
            /\ console' = <<"Error al abrir archivo", 0, 0>>
            /\ UNCHANGED current_state
       ELSE /\ csv_file' = "open"
            /\ disk' = NewRecord
            /\ current_state' = CAPTURING
            /\ console' = <<"Captura iniciada...", 0, 0>>
    /\ UNCHANGED <<just_changed_pwm, pwm_change_time, last_sample_time,
                   last_print_time, current_time>>

\* the PWM branch of process_command
PwmBranch(line) ==
    /\ current_pwm' = ParsePwm(line)
    /\ enA' = DutyU16(ParsePwm(line))
    /\ current_state' = MANUAL_PWM
    /\ console' = <<"Modo manual activado", 0, 0>>
    /\ duty_log' = <<DutyU16(ParsePwm(line))>>
    /\ uninterrupted' = FALSE
    /\ UNCHANGED <<csv_file, pwm_step, descending, start_time, last_step_time,
                   just_changed_pwm, pwm_change_time, last_sample_time,
                   last_print_time, current_time, now, disk, faults>>

\* lines 146-152 with process_command: one complete line is taken from stdin
\* at the top of the loop and processed
process_command(line, d, outcome) ==
    /\ pc = "poll"
    /\ cmds_done' = cmds_done + 1
    /\ last_cmd' = line
    /\ before' = [state |-> current_state, lines |-> Len(disk), duty |-> enA,
                  console |-> console[1], now |-> now]
    /\ IF IsStart(line) THEN StartBranch(line, d, outcome)
       ELSE IF IsPwm(line) THEN PwmBranch(line)
       ELSE UNCHANGED <<current_state, current_pwm, csv_file, pwm_step, descending,
                        start_time, last_step_time, just_changed_pwm,
                        pwm_change_time, last_sample_time, last_print_time,
                        current_time, env, duty_log, uninterrupted, faults>>
    /\ UNCHANGED <<pulse_count, count, rpm, pc, edges_delivered, consumed_total,
                   passes, step_change, sample_elapsed>>

(* ----------------------------- main loop -------------------------------- *)
\* line 154: current_time = ticks_ms(), the clock found advanced by d
ReadClock(d) ==
    /\ pc = "poll"
    /\ now' = now + d
    /\ current_time' = now + d
    /\ pc' = "sample"
    /\ last_cmd' = <<>>
    /\ passes' = passes + 1
    /\ before' = NoBefore
    /\ UNCHANGED <<pulse_count, current_state, current_pwm, csv_file, pwm_step,
                   descending, start_time, last_step_time, just_changed_pwm,
                   pwm_change_time, last_sample_time, last_print_time, count, rpm>>
    /\ UNCHANGED <<enA, disk, console, edges_delivered, consumed_total, cmds_done,
                   duty_log, uninterrupted, faults, step_change, sample_elapsed>>

SampleDue == ticks_diff(current_time, last_sample_time) >= sample_interval

\* lines 157-159: the sampling tick's test and the read of the counter
SampleRead ==
    /\ pc = "sample"
    /\ IF SampleDue
       THEN /\ sample_elapsed' = ticks_diff(current_time, last_sample_time)
            /\ last_sample_time' = current_time
            /\ count' = pulse_count
            /\ pc' = "reset"
       ELSE /\ pc' = "step"
            /\ UNCHANGED <<last_sample_time, count, sample_elapsed>>
    /\ UNCHANGED <<pulse_count, current_state, current_pwm, csv_file, pwm_step,
                   descending, start_time, last_step_time, just_changed_pwm,
                   pwm_change_time, last_print_time, current_time, rpm>>
    /\ UNCHANGED <<env, edges_delivered, consumed_total, cmds_done, last_cmd, duty_log,
                   uninterrupted, passes, faults, before, step_change>>

Settling_Reversed ==
    just_changed_pwm /\ ticks_diff(current_time, pwm_change_time) > SettleWindow

\* line 166: the row is withheld during the settling window
Settling ==
    just_changed_pwm /\ ticks_diff(current_time, pwm_change_time) < SettleWindow

\* line 178: the manual report is due
PrintDue == ticks_diff(current_time, last_print_time) >= print_interval

Abort_StaysCapturing ==
    /\ console' = <<"Error al escribir en archivo", 0, 0>>
    /\ csv_file' = IF csv_file = "None" THEN "None" ELSE "closed"
    /\ UNCHANGED current_state

\* lines 172-176: the write raised; the capture is abandoned
Abort ==
    /\ console' = <<"Error al escribir en archivo", 0, 0>>
    /\ current_state' = IDLE
    /\ csv_file' = IF csv_file = "None" THEN "None" ELSE "closed"

\* lines 160-180: the reset of the counter and the rest of the sampling tick;
\* write_ok is whether csv_file.write succeeds
SampleReset(write_ok) ==
    /\ pc = "reset"
    /\ pulse_count' = 0
    /\ consumed_total' = consumed_total + count
    /\ rpm' = Rpm(count)
    /\ sample_elapsed' = IF current_state = CAPTURING /\ Settling THEN 0
                                                                ELSE sample_elapsed
    /\ IF current_state = CAPTURING
       THEN IF Settling
            THEN /\ pc' = "poll"      \* continue: the step tick is skipped
                 /\ UNCHANGED <<current_state, csv_file, just_changed_pwm,
                                last_print_time, disk, console, uninterrupted,
                                faults>>
            ELSE /\ pc' = "step"
                 /\ just_changed_pwm' = FALSE
                 /\ IF write_ok /\ csv_file = "open"
                    THEN /\ disk' = Append(disk,
                                RowLine(ticks_diff(current_time, start_time),
                                        current_pwm, IntRpm(rpm')))
                         /\ UNCHANGED <<current_state, csv_file, console,
                                        uninterrupted, faults>>
                    ELSE /\ Abort
                         /\ uninterrupted' = FALSE
                         /\ faults' = faults + 1
                         /\ UNCHANGED disk
                 /\ UNCHANGED last_print_time
       ELSE /\ pc' = "step"
            /\ IF current_state = MANUAL_PWM /\ PrintDue
               THEN /\ last_print_time' = current_time
                    /\ console' = <<"PWM: % | RPM: ", current_pwm, IntRpm(rpm')>>
               ELSE UNCHANGED <<last_print_time, console>>
            /\ UNCHANGED <<current_state, csv_file, just_changed_pwm, disk,
                           uninterrupted, faults>>
    /\ UNCHANGED <<current_pwm, pwm_step, descending, start_time, last_step_time,
                   pwm_change_time, last_sample_time, current_time, count>>
    /\ UNCHANGED <<now, enA, edges_delivered, cmds_done, last_cmd, duty_log, passes,
                   before, step_change>>

StepDue_WhenTurning ==
    current_state = CAPTURING
    /\ ticks_diff(current_time, last_step_time) >= step_interval
    /\ rpm > 0

StepDue_AnyMode ==
    ticks_diff(current_time, last_step_time) >= step_interval

\* line 183: the step tick is due
StepDue ==
    current_state = CAPTURING
    /\ ticks_diff(current_time, last_step_time) >= step_interval

StepUp_NoClamp(pwm, step) == pwm + step
\* line 187: the next ascending duty
StepUp(pwm, step) == Min(pwm + step, 100)
\* line 188: the ascent is over
TopReached(pwm) == pwm >= 100
\* line 191: the next descending duty
StepDown(pwm, step) == Max(pwm - step, 0)
\* line 192: the profile is complete
BottomReached(pwm) == pwm <= 0

Finish_MotorOn ==
    /\ current_pwm' = 0
    /\ duty_log' = duty_log
    /\ current_state' = IDLE
    /\ csv_file' = IF csv_file = "None" THEN "None" ELSE "closed"
    /\ console' = <<"Captura finalizada", 0, 0>>
    /\ step_change' = [any |-> TRUE, at |-> current_time, final |-> TRUE]
    /\ UNCHANGED <<enA, descending, just_changed_pwm, pwm_change_time>>

Finish_NoClose ==
    /\ current_pwm' = 0
    /\ enA' = 0
    /\ duty_log' = Append(duty_log, 0)
    /\ current_state' = IDLE
    /\ console' = <<"Captura finalizada", 0, 0>>
    /\ step_change' = [any |-> TRUE, at |-> current_time, final |-> TRUE]
    /\ UNCHANGED <<csv_file, descending, just_changed_pwm, pwm_change_time>>

\* lines 193-199: the capture ends
Finish ==
    /\ current_pwm' = 0
    /\ enA' = 0
    /\ duty_log' = Append(duty_log, 0)
    /\ current_state' = IDLE
    /\ csv_file' = IF csv_file = "None" THEN "None" ELSE "closed"
    /\ console' = <<"Captura finalizada", 0, 0>>
    /\ step_change' = [any |-> TRUE, at |-> current_time, final |-> TRUE]
    /\ UNCHANGED <<descending, just_changed_pwm, pwm_change_time>>

Apply_Stale(pwm) ==
    /\ current_pwm' = pwm
    /\ enA' = enA
    /\ duty_log' = duty_log
    /\ just_changed_pwm' = TRUE
    /\ pwm_change_time' = current_time
    /\ step_change' = [any |-> TRUE, at |-> current_time, final |-> FALSE]
    /\ UNCHANGED <<current_state, csv_file, console>>

\* lines 201-203: the new duty is applied and the settling window opens
Apply(pwm) ==
    /\ current_pwm' = pwm
    /\ enA' = DutyU16(pwm)
    /\ duty_log' = Append(duty_log, DutyU16(pwm))
    /\ just_changed_pwm' = TRUE
    /\ pwm_change_time' = current_time
    /\ step_change' = [any |-> TRUE, at |-> current_time, final |-> FALSE]
    /\ UNCHANGED <<current_state, csv_file, console>>

\* lines 183-203: the step tick
StepTick ==
    /\ pc = "step"
    /\ pc' = "poll"
    /\ IF StepDue
       THEN /\ last_step_time' = current_time
            /\ IF ~descending
               THEN /\ descending' = TopReached(StepUp(current_pwm, pwm_step))
                    /\ Apply(StepUp(current_pwm, pwm_step))
               ELSE IF BottomReached(StepDown(current_pwm, pwm_step))
                    THEN Finish
                    ELSE /\ Apply(StepDown(current_pwm, pwm_step))
                         /\ UNCHANGED descending
       ELSE UNCHANGED <<last_step_time, current_pwm, descending, enA, duty_log,
                        just_changed_pwm, pwm_change_time, current_state, csv_file,
                        console, step_change>>
    /\ sample_elapsed' = 0
    /\ UNCHANGED <<pulse_count, pwm_step, start_time, last_sample_time,
                   last_print_time, current_time, count, rpm>>
    /\ UNCHANGED <<now, disk, edges_delivered, consumed_total, cmds_done, last_cmd,
                   uninterrupted, passes, faults, before>>

(* -------------------------- specifications ----------------------------- *)
\* a storage operation may fail while the fault budget lasts
OpenChoices == IF faults < MaxFaults THEN OpenOutcomes ELSE {"ok"}
WriteChoices == IF faults < MaxFaults THEN BOOLEAN ELSE {TRUE}

\* the controller under operator commands, a free-running clock and storage
\* that may fail; the motor stands still (no encoder edge)
Next ==
    \/ \E line \in CtlLines, d \in CmdJumps, o \in OpenChoices :
          cmds_done < MaxCmds /\ process_command(line, d, o) /\ UNCHANGED twin
    \/ \E d \in Jumps : passes < MaxPasses /\ ReadClock(d) /\ UNCHANGED twin
    \/ SampleRead /\ UNCHANGED twin
    \/ \E w \in WriteChoices : SampleReset(w) /\ UNCHANGED twin
    \/ StepTick /\ UNCHANGED twin

Spec == Init /\ [][Next]_vars

\* the command interpreter: the last line the operator sends is any line of
\* ParseLines, in whatever mode the earlier lines and the loop have left
NextParse ==
    \/ \E line \in CtlLines :
          cmds_done < MaxCmds - 1 /\ process_command(line, 0, "ok") /\ UNCHANGED twin
    \/ \E line \in ParseLines :
          cmds_done = MaxCmds - 1 /\ process_command(line, 0, "ok") /\ UNCHANGED twin
    \/ \E d \in ParseJumps : passes < MaxPasses /\ ReadClock(d) /\ UNCHANGED twin
    \/ SampleRead /\ UNCHANGED twin
    \/ SampleReset(TRUE) /\ UNCHANGED twin
    \/ StepTick /\ UNCHANGED twin

SpecParse == Init /\ [][NextParse]_vars

\* the pulse counter: encoder edges arrive at any point of the loop
NextPulse ==
    \/ count_pulse /\ UNCHANGED twin
    \/ \E line \in PulseLines :
          cmds_done < MaxCmds /\ process_command(line, 0, "ok") /\ UNCHANGED twin
    \/ \E d \in PulseJumps : passes < MaxPasses /\ ReadClock(d) /\ UNCHANGED twin
    \/ SampleRead /\ UNCHANGED twin
    \/ SampleReset(TRUE) /\ UNCHANGED twin
    \/ StepTick /\ UNCHANGED twin

SpecPulse == Init /\ [][NextPulse]_vars

\* one capture per step size, left alone until it ends: START <s> at time 0,
\* then a loop of fixed period, reliable storage and no further command
NextProfile ==
    \/ \E line \in ProfileLines :
          cmds_done = 0 /\ process_command(line, 0, "ok") /\ UNCHANGED twin
    \/ \E d \in ProfilePeriod :
          cmds_done = 1 /\ current_state = CAPTURING /\ ReadClock(d) /\ UNCHANGED twin
    \/ SampleRead /\ UNCHANGED twin
    \/ SampleReset(TRUE) /\ UNCHANGED twin
    \/ StepTick /\ UNCHANGED twin

SpecProfile == Init /\ [][NextProfile]_vars

\* one capture per step size under a loop that runs at two speeds: a pass
\* follows a duty change within the settling window, and the loop is late by a
\* whole step interval otherwise
PacedLoop ==
    \/ \E d \in (IF just_changed_pwm THEN ProfilePeriod ELSE LatePeriod) :
          cmds_done = 1 /\ current_state = CAPTURING /\ ReadClock(d) /\ UNCHANGED twin
    \/ SampleRead /\ UNCHANGED twin
    \/ SampleReset(TRUE) /\ UNCHANGED twin
    \/ StepTick /\ UNCHANGED twin

NextPaced ==
    \/ \E line \in ProfileLines :
          cmds_done = 0 /\ process_command(line, 0, "ok") /\ UNCHANGED twin
    \/ PacedLoop

\* the loop keeps running (while True, line 144) and the clock keeps
\* advancing: a step of the loop that can be taken is eventually taken; nothing
\* obliges the operator to send a command
FairPaced == Init /\ [][NextPaced]_vars /\ WF_vars(PacedLoop)

(* ------------------------------ two runs ------------------------------- *)
\* what a run shows of the controller apart from the samples: the position of
\* the loop, the mode, the duty applied and tracked, the direction, the record's
\* state and its lines less their rpm field, and the kind of line last printed
ObsOf(at, mode, duty, pwm, desc, file, lines, shown) ==
    [pc |-> at, state |-> mode, enA |-> duty, pwm |-> pwm, descending |-> desc,
     csv_file |-> file,
     rows |-> [i \in 1..Len(lines) |-> <<lines[i].kind, lines[i].delta, lines[i].pwm>>],
     console |-> shown[1]]
Obs == ObsOf(pc, current_state, enA, current_pwm, descending, csv_file, disk, console)

\* the step just taken is counted; in the first run what it shows is logged
TwinTrack(next_ip) ==
    twin' = [twin EXCEPT
               !.ip = next_ip,
               !.steps = @ + 1,
               !.log = IF twin.phase = 1
                       THEN Append(@, ObsOf(pc', current_state', enA', current_pwm',
                                            descending', csv_file', disk', console'))
                       ELSE @]

\* the item of the script the run has come to
Item == twin.script[twin.ip]
MoreItems == twin.phase > 0 /\ twin.ip <= Len(twin.script)

ChooseScript(script) ==
    /\ twin.phase = 0
    /\ twin' = [phase |-> 1, script |-> script, ip |-> 1, steps |-> 0, log |-> <<>>,
                rows |-> <<>>]
    /\ UNCHANGED <<prog, env, hist>>

TwinEdge == twin.phase > 0 /\ count_pulse /\ UNCHANGED twin

TwinCommand ==
    /\ MoreItems /\ Item.kind = "cmd"
    /\ process_command(Item.line, Item.d, Item.outcome)
    /\ TwinTrack(twin.ip + 1)

TwinReadClock ==
    /\ MoreItems /\ Item.kind = "pass"
    /\ ReadClock(Item.d)
    /\ TwinTrack(twin.ip)

TwinSampleRead == twin.phase > 0 /\ SampleRead /\ TwinTrack(twin.ip)

TwinSampleReset ==
    /\ twin.phase > 0
    /\ SampleReset(Item.outcome = "ok")
    /\ TwinTrack(IF pc' = "poll" THEN twin.ip + 1 ELSE twin.ip)

TwinStepTick == twin.phase > 0 /\ StepTick /\ TwinTrack(twin.ip + 1)

\* the first run is over: the controller is powered up again and given the same
\* script, the first run's log and record kept for comparison
Rewind ==
    /\ twin.phase = 1
    /\ twin.ip > Len(twin.script)
    /\ twin' = [twin EXCEPT !.phase = 2, !.ip = 1, !.steps = 0, !.rows = disk]
    /\ pulse_count' = 0
    /\ current_state' = IDLE
    /\ current_pwm' = 0
    /\ csv_file' = "None"
    /\ pwm_step' = 0
    /\ descending' = FALSE
    /\ start_time' = 0
    /\ last_step_time' = 0
    /\ just_changed_pwm' = FALSE
    /\ pwm_change_time' = 0
    /\ last_sample_time' = 0
    /\ last_print_time' = 0
    /\ current_time' = 0
    /\ count' = 0
    /\ rpm' = 0
    /\ pc' = "poll"
    /\ now' = 0
    /\ enA' = 0
    /\ disk' = <<>>
    /\ console' = <<"", 0, 0>>
    /\ edges_delivered' = 0
    /\ consumed_total' = 0
    /\ cmds_done' = 0
    /\ last_cmd' = <<>>
    /\ duty_log' = <<0>>
    /\ uninterrupted' = FALSE
    /\ passes' = 0
    /\ faults' = 0
    /\ before' = NoBefore
    /\ step_change' = [any |-> FALSE, at |-> 0, final |-> FALSE]
    /\ sample_elapsed' = 0

\* two runs of the controller on one script of commands, clock readings and
\* storage outcomes, encoder edges arriving in each whenever they will
NextTwin ==
    \/ \E script \in TwinScripts : ChooseScript(script)
    \/ TwinEdge
    \/ TwinCommand
    \/ TwinReadClock
    \/ TwinSampleRead
    \/ TwinSampleReset
    \/ TwinStepTick
    \/ Rewind

SpecTwin == Init /\ [][NextTwin]_vars

(* ------------------------------ claims --------------------------------- *)
\* a row was appended to the record in this step
RowAppended == Len(disk') = Len(disk) + 1 /\ disk'[Len(disk')].kind = "row"
\* percent duties as the 16-bit values the actuator receives
AsU16(seq) == [i \in DOMAIN seq |-> (seq[i] * 65535) \div 100]
\* the last line printed
Printed(text) == console[1] = text

\* C1: outside the two statements of a sampling tick that read and zero the
\* counter, the counts consumed by the sampling ticks plus the counter's value
\* equal the number of edges delivered, whatever the interleaving of
\* count_pulse with the loop.
PulseConservation ==
    pc # "reset" => consumed_total + pulse_count = edges_delivered

\* the number of ascending steps that reach 100 with step size s
StepsToTop(s) == CHOOSE k \in 1..100 : k * s >= 100 /\ (k - 1) * s < 100
\* 0, then min(k*s,100) until 100, then max(100-k*s,0) until 0
ExpectedProfile(s) ==
    <<0>> \o [k \in 1..StepsToTop(s) |-> Min(k * s, 100)]
          \o [k \in 1..StepsToTop(s) |-> Max(100 - k * s, 0)]

\* C2: in a capture that nothing disturbs, the duties handed to the actuator
\* are at every moment a prefix of the profile of the step size, the capture
\* is over (mode IDLE, completion marker printed) exactly when the whole
\* profile has been applied, and nothing is applied after it; step 20 gives
\* 0,20,40,60,80,100,80,60,40,20,0 and step 30 gives 0,30,60,90,100,70,40,10,0.
StepProfile ==
    uninterrupted =>
        LET P == AsU16(ExpectedProfile(pwm_step)) IN
        /\ Len(duty_log) <= Len(P)
        /\ duty_log = SubSeq(P, 1, Len(duty_log))
        /\ (current_state = IDLE) = (duty_log = P)
        /\ Printed("Captura finalizada") = (duty_log = P)
        /\ current_state \in {IDLE, CAPTURING}
        /\ (pwm_step = 20 /\ current_state = IDLE) =>
               duty_log = AsU16(<<0, 20, 40, 60, 80, 100, 80, 60, 40, 20, 0>>)
        /\ (pwm_step = 30 /\ current_state = IDLE) =>
               duty_log = AsU16(<<0, 30, 60, 90, 100, 70, 40, 10, 0>>)

\* C2 witness: the capture with step 30 has run to its end
StepProfileDone ==
    /\ uninterrupted
    /\ pwm_step = 30
    /\ current_state = IDLE
    /\ Printed("Captura finalizada")
    /\ duty_log = AsU16(<<0, 30, 60, 90, 100, 70, 40, 10, 0>>)

\* the verb of a line: its first word, upper-cased
Verb(line) ==
    LET toks == Split(Upper(Strip(line))) IN IF toks = <<>> THEN <<>> ELSE toks[1]
\* the state right after a START that was accepted
AcceptedStart(at, line, shown) ==
    at = "poll" /\ Verb(line) = START /\ shown[1] = "Captura iniciada..."
StartAccepted == AcceptedStart(pc, last_cmd, console)
Clamp(n, lo, hi) == IF n < lo THEN lo ELSE IF n > hi THEN hi ELSE n

\* C3: right after an accepted START, whatever the mode and the point of the
\* profile it was received in, the mode is CAPTURING, the duty 0, the direction
\* ascending, the time origin and the step timer are clock values read during
\* the command, and the record holds the header line and nothing else.
StartResets ==
    StartAccepted =>
        /\ current_state = CAPTURING
        /\ current_pwm = 0
        /\ enA = 0
        /\ ~descending
        /\ before.now <= start_time /\ start_time <= last_step_time
        /\ last_step_time = now
        /\ csv_file = "open"
        /\ disk = <<HeaderLine>>

\* C3 witness: a START accepted in the middle of a running profile, the duty
\* stepped up and rows already recorded
StartMidProfile ==
    /\ StartAccepted
    /\ before.state = CAPTURING
    /\ before.lines > 1
    /\ before.duty > 0
    /\ disk = <<HeaderLine>>

\* C4: a PWM p command leaves the mode MANUAL and the actuator at p clamped to
\* [0,100]; while the mode is MANUAL no row is appended, and the mode stays
\* MANUAL until a START is accepted.
ManualDuty ==
    [][ /\ \A n \in CtlPwmArgs :
              (cmds_done' = cmds_done + 1 /\ last_cmd' = CmdLine(<<"p","w","m">>, n))
              => /\ current_state' = MANUAL_PWM
                 /\ current_pwm' = Clamp(n, 0, 100)
                 /\ enA' = (Clamp(n, 0, 100) * 65535) \div 100
        /\ current_state = MANUAL_PWM
              => /\ ~RowAppended
                 /\ current_state' = MANUAL_PWM \/ AcceptedStart(pc', last_cmd', console')
      ]_vars

\* C4 witness: a capture interrupted by PWM 140; the loop has since sampled and
\* reported in MANUAL, the duty is 100 % and the interrupted record is as it was
ManualAfterCapture ==
    /\ current_state = MANUAL_PWM
    /\ Printed("PWM: % | RPM: ")
    /\ enA = 65535
    /\ Len(disk) > 1

\* the step tick is about to take the descending step that reaches 0
ProfileCompletes ==
    /\ pc = "step"
    /\ current_state = CAPTURING
    /\ current_time - last_step_time >= 2000
    /\ descending
    /\ current_pwm - pwm_step <= 0

\* C5: the step in which the profile completes leaves the mode IDLE, the duty
\* 0 and the record closed and prints the completion marker without touching
\* the record; while the marker is the last line printed no row is appended.
CompletionStep ==
    [][ /\ (ProfileCompletes /\ pc' # pc)
              => /\ current_state' = IDLE
                 /\ current_pwm' = 0
                 /\ enA' = 0
                 /\ csv_file' = "closed"
                 /\ console'[1] = "Captura finalizada"
                 /\ disk' = disk
        /\ Printed("Captura finalizada") => ~RowAppended
      ]_vars

\* C5 witness: a completed capture: marker printed, record closed, its last row
\* taken at the top duty
CompletedCapture ==
    /\ Printed("Captura finalizada")
    /\ current_state = IDLE
    /\ csv_file = "closed"
    /\ enA = 0
    /\ Len(disk) >= 3
    /\ disk[Len(disk)].pwm = 100

\* C6: a command line whose verb is neither START nor PWM changes nothing:
\* mode, duty, step size, direction, timers, settling flag and record are as
\* they were.
UnknownVerbIgnored ==
    [][ (cmds_done' = cmds_done + 1 /\ Verb(last_cmd') \notin {START, PWM})
            => UNCHANGED <<current_state, current_pwm, enA, pwm_step, descending,
                           start_time, last_step_time, last_sample_time,
                           last_print_time, just_changed_pwm, pwm_change_time,
                           csv_file, disk>>
      ]_vars

\* the state right after the line was processed
JustProcessed(line) == pc = "poll" /\ cmds_done > 0 /\ last_cmd = line

\* C7: whatever the spelling of the verb, START n starts a capture with step
\* size n clamped to [1,100] and PWM n sets the duty to n clamped to [0,100];
\* a missing or non-integer argument counts as 20 for START and as 0 for PWM
\* ("start 15" gives 15, "start" gives 20, "PWM 500" gives 100).
ParsedArguments ==
    /\ \A v \in StartVerbs, n \in ArgValues :
          JustProcessed(CmdLine(v, n))
          => current_state = CAPTURING /\ pwm_step = Clamp(n, 1, 100)
    /\ \A v \in PwmVerbs, n \in ArgValues :
          JustProcessed(CmdLine(v, n))
          => /\ current_state = MANUAL_PWM
             /\ current_pwm = Clamp(n, 0, 100)
             /\ enA = (Clamp(n, 0, 100) * 65535) \div 100
    /\ \A line \in { <<"s","t","a","r","t">>, <<" ","s","t","a","r","t","\r">>,
                      <<"S","t","a","r","t"," ","x","9">>,
                      <<"s","t","a","r","t"," ","1",".","5">> } :
          JustProcessed(line) => current_state = CAPTURING /\ pwm_step = 20
    /\ \A line \in { <<"p","w","m">>, <<"P","w","m"," ","h","i">> } :
          JustProcessed(line)
          => current_state = MANUAL_PWM /\ current_pwm = 0 /\ enA = 0
    /\ JustProcessed(<<"s","t","a","r","t"," ","1","5">>) => pwm_step = 15
    /\ JustProcessed(<<"P","W","M"," ","5","0","0">>) => current_pwm = 100

\* C7 witness: "start 15" processed while a manual duty was set: a capture with
\* step size 15
ParsedStart15 ==
    /\ JustProcessed(<<"s","t","a","r","t"," ","1","5">>)
    /\ before.state = MANUAL_PWM
    /\ current_state = CAPTURING
    /\ pwm_step = 15

\* C8: the step in which a row write fails during CAPTURING leaves the mode
\* IDLE and the record closed and unchanged; from then until the next command
\* the record, the duty and the mode stay as they are (no row, no step tick);
\* a START processed then, its own open succeeding, leaves the mode CAPTURING
\* with a record holding only the header.
WriteFailureAborts ==
    [][ /\ (pc = "reset" /\ current_state = CAPTURING /\ faults' = faults + 1)
              => /\ current_state' = IDLE
                 /\ csv_file' = "closed"
                 /\ disk' = disk
        /\ (Printed("Error al escribir en archivo") /\ cmds_done' = cmds_done)
              => /\ current_state' = IDLE
                 /\ UNCHANGED <<disk, enA, current_pwm, csv_file, duty_log>>
        /\ (Printed("Error al escribir en archivo") /\ cmds_done' = cmds_done + 1
               /\ Verb(last_cmd') = START /\ faults' = faults)
              => /\ current_state' = CAPTURING
                 /\ csv_file' = "open"
                 /\ disk' = <<HeaderLine>>
      ]_vars

\* C8 witness: a capture that had recorded rows was abandoned on a write
\* failure, and the START that followed has begun a fresh one
FreshAfterFailure ==
    /\ StartAccepted
    /\ before.console = "Error al escribir en archivo"
    /\ before.state = IDLE
    /\ before.lines > 1
    /\ faults = 1
    /\ current_state = CAPTURING
    /\ disk = <<HeaderLine>>

\* a sampling tick is about to act while CAPTURING
SamplingInCapture == pc = "reset" /\ pc' # pc /\ current_state = CAPTURING

\* C9 as stated: a sampling tick in CAPTURING less than 100 ms after the last
\* duty change made by a step tick appends no row; one at or after 100 ms
\* appends a row and leaves the settling flag cleared.
SettlingWindowAsStated ==
    [][ (SamplingInCapture /\ step_change.any)
            => IF current_time - step_change.at < 100
               THEN ~RowAppended
               ELSE RowAppended /\ ~just_changed_pwm'
      ]_vars

\* C9 amended: a sampling tick in CAPTURING less than 100 ms after the last
\* duty change made by a step tick that continues the profile (lines 201-203)
\* leaves the record and the mode as they are; any other sampling tick in
\* CAPTURING after a step tick leaves the settling flag cleared and either
\* appends a row or, its write failing, abandons the capture.
SettlingWindow ==
    [][ (SamplingInCapture /\ step_change.any)
            => IF ~step_change.final /\ current_time - step_change.at < 100
               THEN disk' = disk /\ current_state' = CAPTURING
               ELSE /\ ~just_changed_pwm'
                    /\ \/ RowAppended /\ current_state' = CAPTURING
                       \/ /\ faults' = faults + 1
                          /\ current_state' = IDLE
                          /\ disk' = disk
      ]_vars

\* C9 witness: after the step to 100 % one sampling tick was withheld (three
\* passes, two rows) and the next one, past the window, recorded the new duty
\* and cleared the flag
RecordedAfterSettling ==
    /\ current_state = CAPTURING
    /\ step_change.any /\ ~step_change.final
    /\ ~just_changed_pwm
    /\ passes = 3 /\ Len(disk) = 3
    /\ disk[3].pwm = 100
    /\ disk[3].delta + start_time - step_change.at >= 100

\* the pwm column of the record's rows, consecutive repeats collapsed
RECURSIVE Collapse(_)
Collapse(seq) ==
    IF Len(seq) <= 1 THEN seq
    ELSE LET r == Collapse(SubSeq(seq, 1, Len(seq) - 1)) IN
         IF seq[Len(seq)] = r[Len(r)] THEN r ELSE Append(r, seq[Len(seq)])
PwmColumn ==
    LET rows == SelectSeq(disk, LAMBDA l : l.kind = "row") IN
    Collapse([i \in 1..Len(rows) |-> rows[i].pwm])
\* the capture started by START 20 has run undisturbed to its end
Start20Completed ==
    uninterrupted /\ pwm_step = 20 /\ current_state = IDLE
    /\ Printed("Captura finalizada")

\* C10 as stated: after START 20 has run to completion the collapsed pwm
\* column of the record is 0,20,40,60,80,100,80,60,40,20,0.
RecordedProfileAsStated ==
    Start20Completed => PwmColumn = <<0, 20, 40, 60, 80, 100, 80, 60, 40, 20, 0>>

\* C10 amended: after START 20 has run to completion the collapsed pwm column
\* of the record is 0,20,40,60,80,100,80,60,40,20: the profile less its final
\* 0, the record being closed in the step that applies it.
RecordedProfile ==
    Start20Completed => PwmColumn = <<0, 20, 40, 60, 80, 100, 80, 60, 40, 20>>

\* C10 witness: the completed START 20 capture, its record closed with rows
RecordedProfileDone ==
    Start20Completed /\ csv_file = "closed" /\ Len(disk) > 10

\* C11: a START that supplies a step size outside [1,100] is rejected: the
\* step that processes it leaves the mode, the record, the duty, the step size
\* and the direction as they were.
OutOfRangeStartRejected ==
    [][ \A v \in StartVerbs, n \in ArgValues :
            (n \notin 1..100 /\ cmds_done' = cmds_done + 1 /\ last_cmd' = CmdLine(v, n))
            => UNCHANGED <<current_state, csv_file, disk, current_pwm, enA, pwm_step,
                           descending>>
      ]_vars

\* C12: the duty on the actuator is always the 16-bit image of a whole percent
\* in [0,100] and the tracked duty is in [0,100]; a commanded duty above the
\* range gives 100 % and one below it 0 %.
DutyInRange ==
    /\ current_pwm \in 0..100
    /\ enA \in 0..65535
    /\ \E p \in 0..100 : enA = (p * 65535) \div 100
    /\ \A v \in PwmVerbs :
          /\ JustProcessed(CmdLine(v, 500)) => enA = 65535
          /\ JustProcessed(CmdLine(v, 101)) => enA = 65535
          /\ JustProcessed(CmdLine(v, -5)) => enA = 0

\* C12 witness: with step size 99 the second ascending step would reach 198 and
\* was applied as 100 %
SaturatedStep ==
    /\ current_state = CAPTURING
    /\ pwm_step = 99
    /\ descending
    /\ current_pwm = 100
    /\ enA = 65535
    /\ duty_log = <<0, (99 * 65535) \div 100, 65535>>

\* pulse_count / pulses_per_revolution / elapsed_seconds * 60 reduced to an
\* integer, the elapsed time in milliseconds; 0 when no time has elapsed
EstimateRpm(n, ms) ==
    IF ms = 0 THEN 0 ELSE (n * 60000) \div (pulses_per_revolution * ms)

\* C13: the RPM a sampling tick produces is the count it consumed, scaled by
\* the time actually elapsed since the previous sampling tick: 0 for a count of
\* 0, and the same figure in the row or the report the tick writes.
RpmFromElapsed ==
    [][ (pc = "reset" /\ pc' # pc)
            => /\ rpm' \div 1000 = EstimateRpm(count, sample_elapsed)
               /\ count = 0 => rpm' = 0
               /\ RowAppended
                     => disk'[Len(disk')].rpm = EstimateRpm(count, sample_elapsed)
      ]_vars

\* C14: under a loop that keeps running and a clock that keeps advancing, a
\* capture that receives no further command and suffers no write failure
\* eventually ends with the mode IDLE, the duty 0 and the record closed,
\* whatever its step size in [1,100].
CaptureCompletes ==
    (current_state = CAPTURING /\ pwm_step \in 1..100)
        ~> (current_state = IDLE /\ enA = 0 /\ csv_file = "closed")

\* C14 witness: the capture with step size 7 (15 steps up, 15 down) has ended,
\* rows withheld after each duty change
SlowCaptureEnded ==
    /\ uninterrupted
    /\ Len(disk) < passes
    /\ pwm_step = 7
    /\ Len(duty_log) = 31
    /\ current_state = IDLE
    /\ enA = 0
    /\ csv_file = "closed"
    /\ Len(disk) > 1

\* C15: a step taken in IDLE or in MANUAL that processes no command (a clock
\* reading, a sampling tick, a step tick) leaves the duty, the direction and
\* the mode as they are, and a step tick in those modes leaves its timer and
\* the settling flag alone.
QuietOutsideCapture ==
    [][ /\ (current_state \in {IDLE, MANUAL_PWM} /\ cmds_done' = cmds_done)
              => UNCHANGED <<enA, current_pwm, descending, current_state, duty_log>>
        /\ (current_state \in {IDLE, MANUAL_PWM} /\ pc = "step")
              => UNCHANGED <<last_step_time, just_changed_pwm, pwm_change_time>>
      ]_vars

\* C15 witness: a capture interrupted by PWM 140, and a loop pass completed in
\* MANUAL a whole step interval after the last step: the duty is still 100 %
\* and the direction ascending
ManualPastStepTime ==
    /\ current_state = MANUAL_PWM
    /\ pc = "poll" /\ last_cmd = <<>>
    /\ current_time - last_step_time >= 2000
    /\ pwm_step = 100
    /\ enA = 65535
    /\ ~descending

\* C17: every step that ends a command or a loop pass leaves the actuator at
\* the 16-bit image of the tracked duty, and the pwm field of a row being
\* appended is the duty the actuator is driven with in that step.
TrackedDutyApplied ==
    [][ /\ pc' = "poll" => enA' = (current_pwm' * 65535) \div 100
        /\ RowAppended
              => /\ (disk'[Len(disk')].pwm * 65535) \div 100 = enA
                 /\ enA' = enA
      ]_vars

\* C17 witness: a pass has ended in CAPTURING with the duty stepped to 100 %
\* and the last row recorded at that duty
DrivenAsRecorded ==
    /\ pc = "poll" /\ last_cmd = <<>>
    /\ current_state = CAPTURING
    /\ current_pwm = 100
    /\ enA = 65535
    /\ Len(disk) > 2
    /\ disk[Len(disk)].pwm = 100
    /\ disk[2].pwm = 0

\* C18: whenever the mode is IDLE the duty on the actuator is 0.
IdleMeansMotorOff == current_state = IDLE => enA = 0

\* C19: a START whose record cannot be opened, or whose header cannot be
\* written, leaves the mode, the duty, the step size, the direction, the time
\* origin, the step timer and the record as they were before the command.
FailedStartChangesNothing ==
    [][ (cmds_done' = cmds_done + 1 /\ Verb(last_cmd') = START /\ faults' = faults + 1)
            => UNCHANGED <<current_state, enA, current_pwm, pwm_step, descending,
                           start_time, last_step_time, csv_file, disk>>
      ]_vars

\* C20: the record is open exactly while the mode is CAPTURING.
RecordOpenIffCapturing == (current_state = CAPTURING) = (csv_file = "open")

\* C16: in the second of two runs given the same commands, clock readings and
\* storage outcomes, after every step the loop is where it was in the first run
\* after as many steps, with the same mode, applied and tracked duty, direction
\* and record state, and the same rows but for their rpm field, whatever the
\* encoder edges of either run.
SamplesDoNotSteer ==
    (twin.phase = 2 /\ twin.steps > 0)
        => /\ twin.steps <= Len(twin.log)
           /\ Obs = twin.log[twin.steps]

\* C16 witness: both runs have completed the profile, and a row of the second
\* carries another rpm than the same row of the first
SameRowsOtherRpm ==
    /\ twin.phase = 2
    /\ twin.ip > Len(twin.script)
    /\ current_state = IDLE
    /\ Printed("Captura finalizada")
    /\ Len(disk) = Len(twin.rows)
    /\ \E i \in 2..Len(disk) : disk[i].rpm # twin.rows[i].rpm

====
